---------------------------- MODULE Spec2Model ----------------------------
(***************************************************************************)
(* Model of plugins/modules/devtools_build.py: an Ansible module that      *)
(* builds an Arch Linux package with extra-x86_64-build and optionally     *)
(* installs the built artifacts with pacman -U.                            *)
(*                                                                         *)
(* Text (metadata, file names, pacman output) is modelled as sequences of  *)
(* one-character strings, so that parsing, formatting and pattern          *)
(* matching are computed the way the Python code computes them.            *)
(***************************************************************************)
EXTENDS Integers, Sequences, FiniteSets, TLC

(***************************************************************************)
(* Bounds                                                                  *)
(***************************************************************************)
\* number of consecutive invocations of the module that are modelled
MaxRuns == 2

(***************************************************************************)
(* Python string primitives                                                *)
(***************************************************************************)
\* Python's None; a value no text can be equal to
None == <<"<None>">>

\* str(None), as produced by str.format_map
NoneText == <<"N", "o", "n", "e">>

IsSpace(c) == c \in {" ", "\t", "\n"}

RECURSIVE lstrip(_)
lstrip(s) == IF s # <<>> /\ IsSpace(Head(s)) THEN lstrip(Tail(s)) ELSE s

RECURSIVE rstrip(_)
rstrip(s) ==
    IF s # <<>> /\ IsSpace(s[Len(s)]) THEN rstrip(SubSeq(s, 1, Len(s) - 1)) ELSE s

\* str.strip()
strip(s) == rstrip(lstrip(s))

\* str.startswith(p)
startswith(s, p) == Len(s) >= Len(p) /\ SubSeq(s, 1, Len(p)) = p

\* str.find(sep) with 1-based positions; 0 when sep does not occur
find(s, sep) ==
    LET hits == {k \in 1..(Len(s) - Len(sep) + 1) : SubSeq(s, k, k + Len(sep) - 1) = sep}
    IN  IF hits = {} THEN 0 ELSE CHOOSE k \in hits : \A h \in hits : k <= h

\* str.partition(sep)[2]: the text after the first sep, empty when sep is absent
partition_tail(s, sep) ==
    LET k == find(s, sep)
    IN  IF k = 0 THEN <<>> ELSE SubSeq(s, k + Len(sep), Len(s))

\* str.split(sep) for a one-character separator: empty pieces are kept
RECURSIVE split(_, _)
split(s, sep) ==
    LET k == find(s, <<sep>>)
    IN  IF k = 0 THEN <<s>>
        ELSE <<SubSeq(s, 1, k - 1)>> \o split(SubSeq(s, k + 1, Len(s)), sep)

\* str.splitlines(): split at line ends, no empty last line
splitlines(text) ==
    LET parts == split(text, "\n")
    IN  IF parts[Len(parts)] = <<>> THEN SubSeq(parts, 1, Len(parts) - 1) ELSE parts

(***************************************************************************)
(* pkg_infos: metadata text -> list of package identities                  *)
(***************************************************************************)
KEY_PKGVER == <<"p", "k", "g", "v", "e", "r", " ", "=">>
KEY_PKGREL == <<"p", "k", "g", "r", "e", "l", " ", "=">>
KEY_PKGNAME == <<"p", "k", "g", "n", "a", "m", "e", " ", "=">>
SEP == <<" ", "=", " ">>

\* the scalar set only while it is still None: the first "key =" line wins
RECURSIVE scan_scalar_first(_, _, _)
scan_scalar_first(lines, key, value) ==
    IF lines = <<>> THEN value
    ELSE LET line == strip(Head(lines))
         IN  scan_scalar_first(Tail(lines), key,
                               IF startswith(line, key) /\ value = None
                               THEN partition_tail(line, SEP) ELSE value)

\* first loop of pkg_infos: the last "key =" line sets the scalar
RECURSIVE scan_scalar(_, _, _)
scan_scalar(lines, key, value) ==
    IF lines = <<>> THEN value
    ELSE LET line == strip(Head(lines))
         IN  scan_scalar(Tail(lines), key,
                         IF startswith(line, key) THEN partition_tail(line, SEP) ELSE value)

\* second loop of pkg_infos: one identity per "pkgname =" line, in line order
RECURSIVE scan_names(_, _)
scan_names(lines, version_info) ==
    IF lines = <<>> THEN <<>>
    ELSE LET line == strip(Head(lines))
             rest == scan_names(Tail(lines), version_info)
         IN  IF startswith(line, KEY_PKGNAME)
             THEN <<[version_info EXCEPT !.pkgname = partition_tail(line, SEP)]>> \o rest
             ELSE rest

\* one pass over the lines: a name line takes the version and the release
\* seen so far
RECURSIVE scan_single_pass(_, _)
scan_single_pass(lines, version_info) ==
    IF lines = <<>> THEN <<>>
    ELSE LET line == strip(Head(lines))
             seen == [version_info EXCEPT
                        !.pkgver = IF startswith(line, KEY_PKGVER)
                                   THEN partition_tail(line, SEP) ELSE @,
                        !.pkgrel = IF startswith(line, KEY_PKGREL)
                                   THEN partition_tail(line, SEP) ELSE @]
             rest == scan_single_pass(Tail(lines), seen)
         IN  IF startswith(line, KEY_PKGNAME)
             THEN <<[seen EXCEPT !.pkgname = partition_tail(line, SEP)]>> \o rest
             ELSE rest

pkg_infos_single_pass(text) ==
    scan_single_pass(splitlines(text), [pkgname |-> None, pkgver |-> None, pkgrel |-> None])

pkg_infos(text) ==
    LET lines == splitlines(text)
        version_info == [pkgname |-> None,
                         pkgver  |-> scan_scalar(lines, KEY_PKGVER, None),
                         pkgrel  |-> scan_scalar(lines, KEY_PKGREL, None)]
    IN  scan_names(lines, version_info)

(***************************************************************************)
(* pkg_version_regex and re.fullmatch                                      *)
(*                                                                         *)
(* A pattern is a sequence of atoms:                                       *)
(*   [k |-> "esc", c]   a backslash-escaped character: matches c only      *)
(*   [k |-> "raw", c]   an unescaped character: "." matches any character  *)
(*                      but a line end, any other raw character itself     *)
(*   [k |-> "class+", set]  one or more characters of a character class    *)
(*   [k |-> "alt", alts]    a group of literal alternatives                *)
(***************************************************************************)
LOWER == {"a", "b", "c", "d", "e", "f", "g", "h", "i", "j", "k", "l", "m",
          "n", "o", "p", "q", "r", "s", "t", "u", "v", "w", "x", "y", "z"}
DIGITS == {"0", "1", "2", "3", "4", "5", "6", "7", "8", "9"}

\* characters re.escape leaves alone: ASCII letters, digits and "_"
\* (upper case letters do not occur in the modelled texts except "N", "X")
UPPER == {"N", "X"}
IsWordChar(c) == c \in LOWER \cup DIGITS \cup UPPER \cup {"_"}

\* re.escape left out: every character of the prefix is pattern syntax
escape_char_raw(c) == [k |-> "raw", c |-> c]

\* re.escape, one character
escape_char(c) == IF IsWordChar(c) THEN [k |-> "raw", c |-> c] ELSE [k |-> "esc", c |-> c]

\* re.escape
escape(s) == [n \in 1..Len(s) |-> escape_char(s[n])]

\* str(value) inside format_map
str(v) == IF v = None THEN NoneText ELSE v

\* "{pkgname}-{pkgver}-{pkgrel}-".format_map(pkg_info)
format_prefix(pkg_info) ==
    str(pkg_info.pkgname) \o <<"-">> \o str(pkg_info.pkgver) \o <<"-">>
        \o str(pkg_info.pkgrel) \o <<"-">>

\* the constant tail "[a-z0-9_]+\.pkg\.tar\.((zst|xz))"
REGEX_TAIL ==
    <<[k |-> "class+", set |-> LOWER \cup DIGITS \cup {"_"}],
      [k |-> "esc", c |-> "."], [k |-> "raw", c |-> "p"], [k |-> "raw", c |-> "k"],
      [k |-> "raw", c |-> "g"],
      [k |-> "esc", c |-> "."], [k |-> "raw", c |-> "t"], [k |-> "raw", c |-> "a"],
      [k |-> "raw", c |-> "r"],
      [k |-> "esc", c |-> "."],
      [k |-> "alt", alts |-> {<<"z", "s", "t">>, <<"x", "z">>}]>>

pkg_version_regex(pkg_info) == escape(format_prefix(pkg_info)) \o REGEX_TAIL

\* does pattern re match exactly the text s
RECURSIVE fullmatch(_, _)
fullmatch(re, s) ==
    IF re = <<>> THEN s = <<>>
    ELSE LET a == Head(re)
             rest(n) == SubSeq(s, n + 1, Len(s))
         IN  CASE a.k = "esc" ->
                    s # <<>> /\ Head(s) = a.c /\ fullmatch(Tail(re), rest(1))
               [] a.k = "raw" ->
                    /\ s # <<>>
                    /\ IF a.c = "." THEN Head(s) # "\n" ELSE Head(s) = a.c
                    /\ fullmatch(Tail(re), rest(1))
               [] a.k = "class+" ->
                    \E n \in 1..Len(s) :
                        /\ \A m \in 1..n : s[m] \in a.set
                        /\ fullmatch(Tail(re), rest(n))
               [] a.k = "alt" ->
                    \E alt \in a.alts :
                        startswith(s, alt) /\ fullmatch(Tail(re), rest(Len(alt)))

\* the first name of the listing that the pattern matches, or None
first_match(file_regex, listing) ==
    LET hits == {n \in 1..Len(listing) : fullmatch(file_regex, listing[n])}
    IN  IF hits = {} THEN None
        ELSE listing[CHOOSE n \in hits : \A h \in hits : n <= h]

\* pkg_path: os.path.join(os.getcwd(), file_name) is represented by file_name
pkg_path(pkg_info, listing) == first_match(pkg_version_regex(pkg_info), listing)

pkg_exists(pkg_info, listing) == pkg_path(pkg_info, listing) # None


(***************************************************************************)
(* Texts the model draws its inputs from                                   *)
(***************************************************************************)
foo == <<"f", "o", "o">>
foo_bar == <<"f", "o", "o", "-", "b", "a", "r">>
Names == {foo, foo_bar}

V10 == <<"1", ".", "0">>
V20 == <<"2", ".", "0">>
R1 == <<"1">>
R2 == <<"2">>

NL == <<"\n">>
L_pkgbase == <<"p", "k", "g", "b", "a", "s", "e">> \o SEP \o foo \o NL
L_pkgver == <<"\t">> \o KEY_PKGVER \o <<" ">> \o V10 \o NL
L_pkgrel == <<"\t">> \o KEY_PKGREL \o <<" ">> \o R1 \o NL
L_arch == <<"\t", "a", "r", "c", "h">> \o SEP \o <<"a", "n", "y">> \o NL
L_empty == NL
L_foo == KEY_PKGNAME \o <<" ">> \o foo \o NL
L_foo_bar == KEY_PKGNAME \o <<" ">> \o foo_bar \o NL

\* outputs of the metadata generator: a single package, a split package,
\* and texts without a package name, a version or a release line
M_single == L_pkgbase \o L_pkgver \o L_pkgrel \o L_arch \o L_empty \o L_foo
M_split == L_pkgbase \o L_pkgver \o L_pkgrel \o L_empty \o L_foo \o L_empty \o L_foo_bar
M_noname == L_pkgbase \o L_pkgver \o L_pkgrel \o L_arch
M_nover == L_pkgbase \o L_pkgrel \o L_empty \o L_foo
M_norel == L_pkgbase \o L_pkgver \o L_empty \o L_foo
M_blank == <<>>
\* a split package whose version line stands between the package names and
\* whose release line stands after them
M_mixed == L_pkgbase \o L_foo \o L_pkgver \o L_foo_bar \o L_pkgrel
\* a text with two version lines and two release lines
L_pkgver2 == <<"\t">> \o KEY_PKGVER \o <<" ">> \o V20 \o NL
L_pkgrel2 == <<"\t">> \o KEY_PKGREL \o <<" ">> \o R2 \o NL
M_twice == L_pkgbase \o L_pkgver \o L_pkgrel \o L_pkgver2 \o L_pkgrel2 \o L_empty \o L_foo
Metadatas == {M_single, M_split, M_noname, M_nover, M_norel, M_blank, M_mixed, M_twice}

\* has the text a line with that key
has_line(text, key) ==
    \E n \in 1..Len(splitlines(text)) : startswith(strip(splitlines(text)[n]), key)

\* the metadata names at least one package and gives a version and a release
WellFormed(text) ==
    has_line(text, KEY_PKGNAME) /\ has_line(text, KEY_PKGVER) /\ has_line(text, KEY_PKGREL)

PKG_TAR == <<".", "p", "k", "g", ".", "t", "a", "r", ".">>
ZST == <<"z", "s", "t">>
XZ == <<"x", "z">>
X86_64 == <<"x", "8", "6", "_", "6", "4">>
ANY == <<"a", "n", "y">>

\* the file name makepkg gives the artifact of a package
Artifact(name, ver, rel, arch, ext) ==
    name \o <<"-">> \o ver \o <<"-">> \o rel \o <<"-">> \o arch \o PKG_TAR \o ext

F_foo == Artifact(foo, V10, R1, X86_64, ZST)
F_foo_xz == Artifact(foo, V10, R1, ANY, XZ)
F_foo_bar == Artifact(foo_bar, V10, R1, X86_64, ZST)
F_foo_r2 == Artifact(foo, V10, R2, X86_64, ZST)
\* near misses: another character for the dot, an unsupported compression,
\* an upper case architecture, no architecture, a trailing and a leading text
F_dot == Artifact(foo, <<"1", "x", "0">>, R1, X86_64, ZST)
F_gz == Artifact(foo, V10, R1, X86_64, <<"g", "z">>)
F_upper == Artifact(foo, V10, R1, <<"X", "8", "6">>, ZST)
F_noarch == Artifact(foo, V10, R1, <<>>, ZST)
F_sig == F_foo \o <<".", "s", "i", "g">>
F_lead == <<"x">> \o F_foo

\* directory listings the run may start from
Listings ==
    { <<>>,
      <<F_foo>>,
      <<F_foo_bar, F_foo>>,
      <<F_foo_bar>>,
      <<F_foo_xz, F_foo>>,
      <<F_dot, F_gz, F_upper, F_noarch, F_sig, F_lead, F_foo_r2>> }

\* files a successful build may leave in the directory: none that matches,
\* one package, both packages of the split package, another release
BuildOutputs == { <<>>, <<F_foo>>, <<F_foo, F_foo_bar>>, <<F_foo_r2>> }

\* what pacman -Q prints after the name: "<pkgver>-<pkgrel>", or a text
\* that is not of that form
Installed(ver, rel) == ver \o <<"-">> \o rel
\* texts not of that form: no hyphen, two hyphens, nothing after the name
T_nohyphen == V10
T_twohyphens == Installed(V10, R1) \o <<"-", "1">>
T_nothing == <<>>
DbTexts == { Installed(V10, R1), Installed(V10, R2), Installed(V20, R1), Installed(V20, R2),
             T_nohyphen, T_twohyphens, T_nothing }
Dbs == { d \in [Names -> DbTexts \cup {None}] :
            d[foo_bar] \in {None, Installed(V10, R1), T_nohyphen} }

\* install_options values
W_overwrite == <<"-", "-", "o", "v", "e", "r", "w", "r", "i", "t", "e">>
W_star == <<"*">>
InstallOptions == { <<>>, <<W_overwrite, W_star>>, <<W_star, W_star>> }

(***************************************************************************)
(* The external commands                                                   *)
(***************************************************************************)
W_srcinfo == <<"b", "a", "s", "h">>
W_build == <<"e", "x", "t", "r", "a", "-", "x", "8", "6", "_", "6", "4", "-", "b", "u", "i", "l", "d">>
W_pacman == <<"p", "a", "c", "m", "a", "n">>
W_Q == <<"-", "Q">>
W_U == <<"-", "U">>
W_noconfirm == <<"-", "-", "n", "o", "c", "o", "n", "f", "i", "r", "m">>

\* one entry of the log of module.run_command calls: the argument list, the
\* exit status, the standard output, and the position of the identity the
\* call was made for
Call(args, rc, out, n) == [args |-> args, rc |-> rc, out |-> out, n |-> n]

IsSrcinfoCall(c) == c.args[1] = W_srcinfo
IsBuildCall(c) == c.args[1] = W_build
IsQueryCall(c) == c.args[1] = W_pacman /\ c.args[2] = W_Q
IsInstallCall(c) == c.args[1] = W_pacman /\ c.args[2] = W_U

\* the query asks for the first package's name whatever the identity is
query_args_first(pkg_info, first) == <<W_pacman, W_Q, first.pkgname>>

\* the argument list of the installed-state query of is_package_installed;
\* first is the first identity of the list and plays no part
query_args(pkg_info, first) == <<W_pacman, W_Q, pkg_info.pkgname>>

\* pacman -Q <name>: exit status and standard output for a database
pacman_query(database, name) ==
    IF name \in DOMAIN database /\ database[name] # None
    THEN [rc |-> 0, stdout |-> name \o <<" ">> \o database[name] \o NL]
    ELSE [rc |-> 1, stdout |-> <<>>]

\* the text pieces joined by "-"
RECURSIVE join_dash(_)
join_dash(parts) ==
    IF Len(parts) = 1 THEN parts[1]
    ELSE parts[1] \o <<"-">> \o join_dash(Tail(parts))

\* pacman -U <file>: the database after a successful installation; the file
\* name of a package is <name>-<pkgver>-<pkgrel>-<arch>.pkg.tar.<ext>
pacman_upgrade(database, file_name) ==
    LET parts == split(file_name, "-")
        n == Len(parts)
        name == join_dash(SubSeq(parts, 1, n - 3))
    IN  IF n >= 4 /\ name \in DOMAIN database
        THEN [database EXCEPT ![name] = Installed(parts[n - 2], parts[n - 1])]
        ELSE database

\* the directory listing after files were written to the directory
RECURSIVE add_files(_, _)
add_files(listing, files) ==
    IF files = <<>> THEN listing
    ELSE add_files(IF \E n \in 1..Len(listing) : listing[n] = Head(files)
                   THEN listing ELSE Append(listing, Head(files)),
                   Tail(files))

(***************************************************************************)
(* is_package_installed: the decision taken from the query's result;       *)
(* raised is TRUE when the Python code raises (IndexError or ValueError)   *)
(***************************************************************************)
\* output that cannot be parsed taken as "not installed"
is_package_installed_lenient(pkg_info, rc, stdout) ==
    IF rc # 0 THEN [raised |-> FALSE, value |-> FALSE]
    ELSE LET fields == split(strip(stdout), " ")
         IN  IF Len(fields) < 2 THEN [raised |-> FALSE, value |-> FALSE]
             ELSE LET parts == split(fields[2], "-")
                  IN  IF Len(parts) # 2 THEN [raised |-> FALSE, value |-> FALSE]
                      ELSE IF parts[1] # pkg_info.pkgver THEN [raised |-> FALSE, value |-> FALSE]
                      ELSE IF parts[2] # pkg_info.pkgrel THEN [raised |-> FALSE, value |-> FALSE]
                      ELSE [raised |-> FALSE, value |-> TRUE]

\* the comparison of the version left out
is_package_installed_nover(pkg_info, rc, stdout) ==
    IF rc # 0 THEN [raised |-> FALSE, value |-> FALSE]
    ELSE LET fields == split(strip(stdout), " ")
         IN  IF Len(fields) < 2 THEN [raised |-> TRUE, value |-> FALSE]
             ELSE LET parts == split(fields[2], "-")
                  IN  IF Len(parts) # 2 THEN [raised |-> TRUE, value |-> FALSE]
                      ELSE IF parts[2] # pkg_info.pkgrel THEN [raised |-> FALSE, value |-> FALSE]
                      ELSE [raised |-> FALSE, value |-> TRUE]

\* the comparison of the release left out
is_package_installed_norel(pkg_info, rc, stdout) ==
    IF rc # 0 THEN [raised |-> FALSE, value |-> FALSE]
    ELSE LET fields == split(strip(stdout), " ")
         IN  IF Len(fields) < 2 THEN [raised |-> TRUE, value |-> FALSE]
             ELSE LET parts == split(fields[2], "-")
                  IN  IF Len(parts) # 2 THEN [raised |-> TRUE, value |-> FALSE]
                      ELSE IF parts[1] # pkg_info.pkgver THEN [raised |-> FALSE, value |-> FALSE]
                      ELSE [raised |-> FALSE, value |-> TRUE]

is_package_installed(pkg_info, rc, stdout) ==
    IF rc # 0 THEN [raised |-> FALSE, value |-> FALSE]
    ELSE LET fields == split(strip(stdout), " ")
         IN  IF Len(fields) < 2 THEN [raised |-> TRUE, value |-> FALSE]
             ELSE LET parts == split(fields[2], "-")
                  IN  IF Len(parts) # 2 THEN [raised |-> TRUE, value |-> FALSE]
                      ELSE IF parts[1] # pkg_info.pkgver THEN [raised |-> FALSE, value |-> FALSE]
                      ELSE IF parts[2] # pkg_info.pkgrel THEN [raised |-> FALSE, value |-> FALSE]
                      ELSE [raised |-> FALSE, value |-> TRUE]

\* run_command(..., check_rc=False): the exit status is not looked at
check_rc_ignored(rc) == FALSE

\* run_command(..., check_rc=True): a non-zero exit status ends the run
\* with fail_json
check_rc(rc) == rc # 0

\* the install phase entered whatever the action is
install_requested_always(a) == TRUE

\* run_module's test of the action parameter
install_requested(a) == a = "install"

\* the install phase run before the build phase
phase_after_install_first(p, a) ==
    CASE p = "start" -> IF a = "install" THEN "install_packages" ELSE "build_packages"
      [] p = "install_packages" -> "build_packages"
      [] p = "build_packages" -> "done"

\* the order of the phases in run_module: build_packages, then
\* install_packages when the action asks for it, then exit_json
phase_after(p, a) ==
    CASE p = "start" -> "build_packages"
      [] p = "build_packages" ->
            IF install_requested(a) THEN "install_packages" ELSE "done"
      [] p = "install_packages" -> "done"

(***************************************************************************)
(* State                                                                   *)
(***************************************************************************)
VARIABLES
    srcinfo_text,     \* what the metadata generator prints for the PKGBUILD
    action,           \* module.params['action']
    install_options,  \* module.params['install_options']
    check_mode,       \* module.check_mode
    listing,          \* os.listdir() of pkgbuild_dir
    db,               \* pacman's database: name -> "<pkgver>-<pkgrel>" or None
    cwd,              \* the process's working directory
    pc,               \* position of the run
    packages,         \* the identities the current loop iterates over
    idx,              \* position of the loop in packages
    changed,          \* the local changed of build_packages / install_packages
    package_paths,    \* the local package_paths of build_packages
    result,           \* the result dict of run_module
    failure,          \* why the run stopped, "" while it has not
    calls,            \* the run_command calls of this run, in order
    run,              \* number of the current run
    db0,              \* the database when the current run started
    listing0          \* the listing when the current run started

vars == <<srcinfo_text, action, install_options, check_mode, listing, db, cwd, pc,
          packages, idx, changed, package_paths, result, failure, calls, run,
          db0, listing0>>

params == <<srcinfo_text, action, install_options, check_mode>>

Init ==
    /\ srcinfo_text \in Metadatas
    /\ action \in {"build", "install"}
    /\ install_options \in InstallOptions
    /\ check_mode \in BOOLEAN
    /\ listing \in Listings
    /\ db \in Dbs
    /\ cwd = "elsewhere"
    /\ pc = "start"
    /\ packages = <<>>
    /\ idx = 1
    /\ changed = FALSE
    /\ package_paths = <<>>
    /\ result = [changed |-> FALSE, package_paths |-> None]
    /\ failure = ""
    /\ calls = <<>>
    /\ run = 1
    /\ db0 = db
    /\ listing0 = listing

\* srcinfo: the exit status is ignored, the output is returned
srcinfo == Call(<<W_srcinfo>>, 0, srcinfo_text, 0)

(***************************************************************************)
(* run_module, up to the call of build_packages                            *)
(***************************************************************************)
\* the test of module.check_mode left out
run_module_no_check_mode ==
    /\ pc = "start"
    /\ pc' = phase_after("start", action)
    /\ cwd' = "pkgbuild_dir"
    /\ UNCHANGED <<params, listing, db, packages, idx, changed, package_paths,
                   result, failure, calls, run, db0, listing0>>

run_module ==
    /\ pc = "start"
    /\ IF check_mode
       THEN pc' = "done" /\ cwd' = cwd
       ELSE pc' = phase_after("start", action) /\ cwd' = "pkgbuild_dir"
    /\ UNCHANGED <<params, listing, db, packages, idx, changed, package_paths,
                   result, failure, calls, run, db0, listing0>>

\* build_packages, up to the loop
build_packages ==
    /\ pc = "build_packages"
    /\ calls' = Append(calls, srcinfo)
    /\ packages' = pkg_infos(srcinfo_text)
    /\ idx' = 1
    /\ changed' = FALSE
    /\ package_paths' = <<>>
    /\ pc' = "build_package"
    /\ UNCHANGED <<params, listing, db, cwd, result, failure, run, db0, listing0>>

\* build_package for packages[idx], and the loop body around it
build_package ==
    /\ pc = "build_package"
    /\ idx <= Len(packages)
    /\ LET pkg_info == packages[idx]
       IN  IF ~pkg_exists(pkg_info, listing)
           THEN \E rc \in {0, 1}, built \in BuildOutputs :
                   /\ calls' = Append(calls, Call(<<W_build>>, rc, <<>>, idx))
                   /\ IF check_rc(rc)
                      THEN /\ pc' = "failed"
                           /\ failure' = "build failed"
                           /\ UNCHANGED <<listing, changed, package_paths, idx>>
                      ELSE /\ listing' = add_files(listing, built)
                           /\ changed' = TRUE
                           /\ package_paths' = Append(package_paths, pkg_path(pkg_info, listing'))
                           /\ idx' = idx + 1
                           /\ UNCHANGED <<pc, failure>>
           ELSE /\ package_paths' = Append(package_paths, pkg_path(pkg_info, listing))
                /\ changed' = changed
                /\ idx' = idx + 1
                /\ UNCHANGED <<listing, calls, pc, failure>>
    /\ UNCHANGED <<params, db, cwd, packages, result, run, db0, listing0>>

\* the end of build_packages and run_module's use of its result
build_packages_return ==
    /\ pc = "build_package"
    /\ idx > Len(packages)
    /\ result' = [changed |-> changed, package_paths |-> package_paths]
    /\ pc' = phase_after("build_packages", action)
    /\ UNCHANGED <<params, listing, db, cwd, packages, idx, changed, package_paths,
                   failure, calls, run, db0, listing0>>

\* install_packages, up to the loop
install_packages ==
    /\ pc = "install_packages"
    /\ calls' = Append(calls, srcinfo)
    /\ packages' = pkg_infos(srcinfo_text)
    /\ idx' = 1
    /\ changed' = FALSE
    /\ pc' = "install_package"
    /\ UNCHANGED <<params, listing, db, cwd, package_paths, result, failure, run,
                   db0, listing0>>

\* install_package for packages[idx], and the loop body around it
install_package ==
    /\ pc = "install_package"
    /\ idx <= Len(packages)
    /\ LET pkg_info == packages[idx]
           qargs == query_args(pkg_info, packages[1])
           q == pacman_query(db, qargs[3])
           query == Call(qargs, q.rc, q.stdout, idx)
           installed == is_package_installed(pkg_info, q.rc, q.stdout)
           pkg_file_name == first_match(pkg_version_regex(pkg_info), listing)
           args == <<W_pacman, W_U, W_noconfirm>> \o install_options \o <<pkg_file_name>>
       IN  IF installed.raised
           THEN /\ calls' = Append(calls, query)
                /\ pc' = "failed"
                /\ failure' = "exception"
                /\ UNCHANGED <<db, changed, idx>>
           ELSE IF installed.value
           THEN /\ calls' = Append(calls, query)
                /\ idx' = idx + 1
                /\ UNCHANGED <<db, changed, pc, failure>>
           ELSE \* pacman -U is called also when no file matched (pkg_file_name
                \* is None); what it then exits with is not decided by this code
                \E rc \in {0, 1} :
                   /\ calls' = Append(Append(calls, query), Call(args, rc, <<>>, idx))
                   /\ IF check_rc(rc)
                      THEN /\ pc' = "failed"
                           /\ failure' = "install failed"
                           /\ UNCHANGED <<db, changed, idx>>
                      ELSE /\ db' = IF pkg_file_name = None THEN db
                                    ELSE pacman_upgrade(db, pkg_file_name)
                           /\ changed' = TRUE
                           /\ idx' = idx + 1
                           /\ UNCHANGED <<pc, failure>>
    /\ UNCHANGED <<params, listing, cwd, packages, package_paths, result, run,
                   db0, listing0>>

\* the end of install_packages, whose result run_module does not use, and
\* run_module's exit_json
install_packages_return ==
    /\ pc = "install_package"
    /\ idx > Len(packages)
    /\ pc' = phase_after("install_packages", action)
    /\ UNCHANGED <<params, listing, db, cwd, packages, idx, changed, package_paths,
                   result, failure, calls, run, db0, listing0>>

\* the module is invoked again with the same parameters after a run that
\* ended with exit_json; nothing else touched the directory or the database
next_run ==
    /\ pc = "done"
    /\ run < MaxRuns
    /\ run' = run + 1
    /\ pc' = "start"
    /\ cwd' = "elsewhere"
    /\ packages' = <<>>
    /\ idx' = 1
    /\ changed' = FALSE
    /\ package_paths' = <<>>
    /\ result' = [changed |-> FALSE, package_paths |-> None]
    /\ calls' = <<>>
    /\ db0' = db
    /\ listing0' = listing
    /\ UNCHANGED <<params, listing, db, failure>>

Next ==
    \/ run_module
    \/ build_packages
    \/ build_package
    \/ build_packages_return
    \/ install_packages
    \/ install_package
    \/ install_packages_return
    \/ next_run

Spec == Init /\ [][Next]_vars

(***************************************************************************)
(* Vocabulary of the properties                                            *)
(***************************************************************************)
BuildCalls == {n \in 1..Len(calls) : IsBuildCall(calls[n])}
QueryCalls == {n \in 1..Len(calls) : IsQueryCall(calls[n])}
InstallCalls == {n \in 1..Len(calls) : IsInstallCall(calls[n])}

\* the run ended with exit_json after doing its work (not in check mode)
Succeeded == pc = "done" /\ ~check_mode

\* the identity carries a name, a version and a release
Complete(pkg_info) ==
    pkg_info.pkgname # None /\ pkg_info.pkgver # None /\ pkg_info.pkgrel # None

\* str.endswith
endswith(s, p) == Len(s) >= Len(p) /\ SubSeq(s, Len(s) - Len(p) + 1, Len(s)) = p

\* file_name is <name>-<version>-<release>-<arch>.pkg.tar.<zst|xz> for the
\* identity, with a non-empty arch of lower case letters, digits, underscores
IsArtifactOf(file_name, pkg_info) ==
    LET prefix == pkg_info.pkgname \o <<"-">> \o pkg_info.pkgver \o <<"-">>
                    \o pkg_info.pkgrel \o <<"-">>
    IN  \E ext \in {ZST, XZ} :
           LET suffix == PKG_TAR \o ext
               first == Len(prefix) + 1
               last == Len(file_name) - Len(suffix)
           IN  /\ startswith(file_name, prefix)
               /\ endswith(file_name, suffix)
               /\ first <= last
               /\ \A n \in first..last : file_name[n] \in LOWER \cup DIGITS \cup {"_"}

\* the query's output reports exactly this version and release for the identity
ReportsExact(c, pkg_info) ==
    /\ c.rc = 0
    /\ c.out = pkg_info.pkgname \o <<" ">> \o Installed(pkg_info.pkgver, pkg_info.pkgrel) \o NL

\* the query's output reports another version or another release
ReportsOther(c, pkg_info) ==
    /\ c.rc = 0
    /\ \E ver \in {V10, V20}, rel \in {R1, R2} :
          /\ <<ver, rel>> # <<pkg_info.pkgver, pkg_info.pkgrel>>
          /\ c.out = pkg_info.pkgname \o <<" ">> \o Installed(ver, rel) \o NL

(***************************************************************************)
(* Properties                                                              *)
(***************************************************************************)

\* C1: a second run with the same parameters, after a first run that
\* completed and with nothing else changing the directory or the database,
\* reports changed = false and calls neither the build tool nor pacman -U.
C1_Idempotence ==
    (run >= 2 /\ pc = "done") =>
        /\ result.changed = FALSE
        /\ BuildCalls = {}
        /\ InstallCalls = {}

\* C2: in one run the build tool is called exactly once when some identity
\* had no matching artifact when the build phase started, and not at all
\* when every identity had one; never more than once.
C2_SingleBuild ==
    /\ Cardinality(BuildCalls) <= 1
    /\ Succeeded =>
          Cardinality(BuildCalls) =
              IF \E k \in 1..Len(packages) : ~pkg_exists(packages[k], listing0)
              THEN 1 ELSE 0

\* C3: the reported changed flag is true exactly when the run made at least
\* one build call or at least one install call.
C3_ChangedIffWork ==
    pc = "done" => (result.changed <=> (BuildCalls # {} \/ InstallCalls # {}))

\* C4: with action=install, an install call is made for an identity exactly
\* when the installed-state query for it does not report the identity's
\* version and release: none when it reports both, one when the query exits
\* non-zero or reports another version or release.
C4_InstallGating ==
    /\ \A n \in InstallCalls :
          /\ n - 1 \in QueryCalls
          /\ calls[n - 1].n = calls[n].n
          /\ ~ReportsExact(calls[n - 1], packages[calls[n].n])
    /\ \A n \in QueryCalls :
          (calls[n].rc # 0 \/ ReportsOther(calls[n], packages[calls[n].n])) =>
              /\ n + 1 \in InstallCalls
              /\ calls[n + 1].n = calls[n].n

\* C4 witness: the build phase found the artifact and built nothing, the
\* query reported another release, and pacman -U was called for the identity
C4_Witness ==
    /\ action = "install"
    /\ BuildCalls = {}
    /\ \E n \in QueryCalls :
          /\ ReportsOther(calls[n], packages[calls[n].n])
          /\ package_paths[calls[n].n] # None
          /\ n + 1 \in InstallCalls

\* C5: when the build tool exited with status zero and an identity still
\* has no matching artifact, the run is in its failed state: no path of the
\* collected list is absent while the run goes on or succeeds.
C5_BuildArtifactMissingIsFatal ==
    (\E k \in 1..Len(package_paths) : package_paths[k] = None) => pc = "failed"

\* C6: pacman -U is never called for an identity without a located artifact.
C6_NoInstallWithoutArtifact ==
    \A n \in InstallCalls : calls[n].args[Len(calls[n].args)] # None

\* C7: with a metadata text that lacks the package name, the version or the
\* release line, the run does not succeed and makes no build, query or
\* install call.
C7_MalformedMetadataFails ==
    (~check_mode /\ ~WellFormed(srcinfo_text)) =>
        /\ pc # "done"
        /\ BuildCalls = {} /\ QueryCalls = {} /\ InstallCalls = {}

\* C8: for every identity, a file name of the directory matches the
\* identity's pattern exactly when it is the literal name-version-release-
\* followed by a non-empty architecture of lower case letters, digits and
\* underscores and by .pkg.tar.zst or .pkg.tar.xz; the located artifact of
\* an identity is such a file.
C8_ExactMatch ==
    \A k \in 1..Len(packages) :
        Complete(packages[k]) =>
            /\ LET file_regex == pkg_version_regex(packages[k])
               IN  \A n \in 1..Len(listing) :
                      fullmatch(file_regex, listing[n])
                          <=> IsArtifactOf(listing[n], packages[k])
            /\ (k <= Len(package_paths) /\ package_paths[k] # None) =>
                  IsArtifactOf(package_paths[k], packages[k])

\* C8 witness: foo-bar's artifact stands before foo's in the listing and the
\* identity foo was resolved to foo's artifact
C8_Witness ==
    /\ Len(listing) >= 2 /\ listing[1] = F_foo_bar /\ listing[2] = F_foo
    /\ Len(package_paths) >= 1
    /\ packages[1] = [pkgname |-> foo, pkgver |-> V10, pkgrel |-> R1]
    /\ package_paths[1] = F_foo

\* C9: a build call or an install call that exited non-zero is the last
\* call of the run, and the run is in its failed state.
C9_ErrorsAreFatal ==
    \A n \in BuildCalls \cup InstallCalls :
        calls[n].rc # 0 => (n = Len(calls) /\ pc = "failed")

\* C9 witness: pacman -U failed for the first package of a split package
C9_Witness ==
    /\ pc = "failed"
    /\ Len(calls) \in InstallCalls
    /\ calls[Len(calls)].rc # 0
    /\ idx < Len(packages)

\* C10: with action=build the run makes no installed-state query and no
\* install call and leaves the package database as it was.
C10_BuildSkipsInstall ==
    action = "build" => (QueryCalls = {} /\ InstallCalls = {} /\ db = db0)

\* C10 witness: a build-only run ended after building, with foo not installed
C10_Witness ==
    /\ action = "build"
    /\ Succeeded
    /\ BuildCalls # {}
    /\ Len(packages) = 2
    /\ db[foo] = None
    /\ install_options # <<>>

\* the file is in the directory and matches the identity's pattern
IsLocatedArtifact(file_name, pkg_info) ==
    /\ \E n \in 1..Len(listing) : listing[n] = file_name
    /\ fullmatch(pkg_version_regex(pkg_info), file_name)

\* C11: the argument list of every install call is pacman -U, --noconfirm,
\* the caller's install options unchanged and in order, and last the
\* artifact of the identity the call is made for.
C11_OptionForwarding ==
    \A n \in InstallCalls :
        LET args == calls[n].args
        IN  /\ Len(args) = 3 + Len(install_options) + 1
            /\ SubSeq(args, 1, 3) = <<W_pacman, W_U, W_noconfirm>>
            /\ SubSeq(args, 4, Len(args) - 1) = install_options
            /\ IsLocatedArtifact(args[Len(args)], packages[calls[n].n])

\* C12: the path list of a successful run has one entry per identity, in
\* extraction order, each the path of an existing file that matches the
\* identity's pattern.
C12_ArtifactPaths ==
    Succeeded =>
        /\ Len(result.package_paths) = Len(packages)
        /\ \A k \in 1..Len(packages) :
              IsLocatedArtifact(result.package_paths[k], packages[k])

\* the directory holds an artifact of the identity
HasArtifact(pkg_info) == \E n \in 1..Len(listing) : IsArtifactOf(listing[n], pkg_info)

\* the package database holds the identity's name with its version and release
IsInstalledExactly(pkg_info) ==
    /\ pkg_info.pkgname \in DOMAIN db
    /\ db[pkg_info.pkgname] = Installed(pkg_info.pkgver, pkg_info.pkgrel)

\* what the run shows of a build tool that produces an artifact for every
\* identity whenever it succeeds: files stay in the directory, so after a
\* successful build call every identity has its artifact
BuildToolKeptItsPromise ==
    (\E n \in BuildCalls : calls[n].rc = 0) =>
        \A k \in 1..Len(packages) : HasArtifact(packages[k])

\* C13: when the build tool's successful calls produced an artifact for
\* every identity (and pacman -U, as modelled, records the version and
\* release of the file it installed), a run with action=install that ends
\* without error leaves every identity with an artifact in the directory
\* and with its exact version and release in the package database.
C13_Convergence ==
    (action = "install" /\ Succeeded /\ BuildToolKeptItsPromise) =>
        \A k \in 1..Len(packages) :
            HasArtifact(packages[k]) /\ IsInstalledExactly(packages[k])

\* C13 witness: a split package was built and both packages were installed,
\* foo over another installed release
C13_Witness ==
    /\ action = "install" /\ Succeeded /\ BuildToolKeptItsPromise
    /\ BuildCalls # {}
    /\ Cardinality(InstallCalls) = 2
    /\ db0[foo] = Installed(V10, R2)
    /\ Len(packages) = 2
    /\ \A k \in 1..2 : HasArtifact(packages[k]) /\ IsInstalledExactly(packages[k])

\* C14: with action=install every build call of the run comes before the
\* first installed-state query and before the first install call.
C14_BuildBeforeInstall ==
    action = "install" =>
        \A b \in BuildCalls : \A n \in QueryCalls \cup InstallCalls : b < n

\* C14 witness: a run that built and then queried and installed
C14_Witness ==
    /\ action = "install"
    /\ BuildCalls # {} /\ QueryCalls # {} /\ InstallCalls # {}
    /\ pc = "done"

\* C15: at most one install call per identity, install calls in extraction
\* order, at most as many as there are identities, and each directly after
\* the installed-state query for that identity's name.
C15_OneInstallPerIdentity ==
    /\ \A m, n \in InstallCalls : m < n => calls[m].n < calls[n].n
    /\ Cardinality(InstallCalls) <= Len(packages)
    /\ \A n \in InstallCalls :
          /\ n - 1 \in QueryCalls
          /\ calls[n - 1].args = <<W_pacman, W_Q, packages[calls[n].n].pkgname>>
          /\ \A m \in QueryCalls : m < n - 1 => calls[m].n < calls[n].n

\* C15 witness: the two packages of a split package installed one after the
\* other, each after its own query
C15_Witness ==
    /\ Len(packages) = 2
    /\ Cardinality(InstallCalls) = 2
    /\ \E m, n \in InstallCalls :
          /\ calls[m].n = 1 /\ calls[n].n = 2 /\ m < n
          /\ calls[m - 1].args[3] = foo
          /\ calls[n - 1].args[3] = foo_bar

\* the metadata text was read and parsed in this run
MetadataRead == calls # <<>>

\* the k-th smallest member of a set of numbers
Nth(S, k) == CHOOSE n \in S : Cardinality({m \in S : m < n}) = k - 1

\* the values of the lines of the text that start with the key, in line
\* order: the value of a line is what follows " = "
ValuesOf(text, key) ==
    LET lines == splitlines(text)
        S == {n \in 1..Len(lines) : startswith(strip(lines[n]), key)}
    IN  [k \in 1..Cardinality(S) |-> partition_tail(strip(lines[Nth(S, k)]), SEP)]

\* for every metadata text of the model, the values of its name, version
\* and release lines
NameValues == [text \in Metadatas |-> ValuesOf(text, KEY_PKGNAME)]
VersionValues == [text \in Metadatas |-> ValuesOf(text, KEY_PKGVER)]
ReleaseValues == [text \in Metadatas |-> ValuesOf(text, KEY_PKGREL)]

\* the first / the last value of a list of values, None when there is none
FirstValue(values) == IF Len(values) = 0 THEN None ELSE values[1]
LastValue(values) == IF Len(values) = 0 THEN None ELSE values[Len(values)]

\* C16: the identities are one per package-name line, in line order, and
\* all carry the same version and the same release, wherever the version
\* and release lines stand relative to the package-name lines.
C16_OneIdentityPerName ==
    MetadataRead =>
        LET names == NameValues[srcinfo_text]
        IN  /\ Len(packages) = Len(names)
            /\ \A k \in 1..Len(packages) : packages[k].pkgname = names[k]
            /\ \A j, k \in 1..Len(packages) :
                  /\ packages[j].pkgver = packages[k].pkgver
                  /\ packages[j].pkgrel = packages[k].pkgrel

\* C16 witness: the version line stands between the two names and the
\* release line after them, and both identities carry version and release
C16_Witness ==
    /\ MetadataRead
    /\ srcinfo_text = M_mixed
    /\ packages = <<[pkgname |-> foo, pkgver |-> V10, pkgrel |-> R1],
                    [pkgname |-> foo_bar, pkgver |-> V10, pkgrel |-> R1]>>

\* C17 as stated: with several version or release lines every identity
\* carries the value of the first line of each key.
C17_FirstOccurrenceWins ==
    MetadataRead =>
        \A k \in 1..Len(packages) :
            /\ packages[k].pkgver = FirstValue(VersionValues[srcinfo_text])
            /\ packages[k].pkgrel = FirstValue(ReleaseValues[srcinfo_text])

\* C17 amended: with several version or release lines every identity
\* carries the value of the last line of each key; earlier lines are
\* replaced.
C17_LastOccurrenceWins ==
    MetadataRead =>
        \A k \in 1..Len(packages) :
            /\ packages[k].pkgver = LastValue(VersionValues[srcinfo_text])
            /\ packages[k].pkgrel = LastValue(ReleaseValues[srcinfo_text])

\* C17 witness: two version lines and two release lines, and the identity
\* carries the second of each
C17_Witness ==
    /\ MetadataRead
    /\ Len(VersionValues[srcinfo_text]) = 2
    /\ Len(ReleaseValues[srcinfo_text]) = 2
    /\ packages = <<[pkgname |-> foo, pkgver |-> V20, pkgrel |-> R2]>>

\* the number of hyphens in the text from position first on
Hyphens(text, first) == Cardinality({n \in first..Len(text) : text[n] = "-"})

\* the query exited with status zero and its output is not
\* "<name> <version>-<release>": there is no second field, or the second
\* field does not hold exactly one hyphen
Unparseable(c) ==
    LET body == strip(c.out)
        space == find(body, <<" ">>)
    IN  /\ c.rc = 0
        /\ space = 0 \/ Hyphens(body, space + 1) # 1

\* C18: a query that exits with status zero and whose output cannot be
\* parsed is the last call of the run, which is then in a failed state of
\* its own kind: no install call follows and no success is reported; a
\* query that exits non-zero is followed by the install call.
C18_UnparseableQueryIsFatal ==
    \A n \in QueryCalls :
        /\ Unparseable(calls[n]) =>
              (n = Len(calls) /\ pc = "failed" /\ failure = "exception")
        /\ calls[n].rc # 0 =>
              (n + 1 \in InstallCalls /\ calls[n + 1].n = calls[n].n)

\* C18 witness: the query for the second package of a split package printed
\* a version without a release, after the first package was not installed
\* (query exit status 1) and got installed
C18_Witness ==
    /\ pc = "failed" /\ failure = "exception"
    /\ Len(calls) \in QueryCalls
    /\ Unparseable(calls[Len(calls)])
    /\ calls[Len(calls)].n = 2
    /\ \E n \in QueryCalls : calls[n].rc # 0 /\ n + 1 \in InstallCalls

\* C19: in check mode the run reports changed = false, makes no call of the
\* metadata generator, the build tool or pacman, and leaves the working
\* directory, the directory listing and the package database as they were.
C19_CheckModeNoEffect ==
    check_mode =>
        /\ calls = <<>>
        /\ cwd = "elsewhere"
        /\ result.changed = FALSE
        /\ listing = listing0 /\ db = db0
        /\ pc \in {"start", "done"}

\* C19 witness: a check-mode run with action=install ended although nothing
\* is built and nothing is installed
C19_Witness ==
    /\ check_mode
    /\ pc = "done"
    /\ action = "install"
    /\ listing = <<>>
    /\ db[foo] = None
    /\ WellFormed(srcinfo_text)

=============================================================================
